---------------------------- MODULE Spec2Model ----------------------------
(***************************************************************************)
(* Model of genshin_farmer: the Enka Network profile fetcher               *)
(* (fetch_player_info_direct.py), the static translation tables            *)
(* (id_translations.py) and the artifact gear table CLI                    *)
(* (character_gear_table.py).                                              *)
(*                                                                         *)
(* Python str values are TLA+ strings (sequences of characters); Head,     *)
(* Tail, SubSeq, Len and \o act on them character by character.            *)
(* A stat value is a record [kind, tenths]: kind is the Python type the    *)
(* number has ("int" or "float") and tenths is ten times its value, so     *)
(* every float of the model has at most one decimal digit.                 *)
(***************************************************************************)
EXTENDS Integers, Sequences, FiniteSets, TLC

(***************************************************************************)
(* Python string primitives used by the source.                            *)
(***************************************************************************)
UPPER == "ABCDEFGHIJKLMNOPQRSTUVWXYZ"

LOWER == "abcdefghijklmnopqrstuvwxyz"

DIGITS == "0123456789"

CharAt(s, i) == SubSeq(s, i, i)

IsUpperChar(c) == \E i \in 1..Len(UPPER) : CharAt(UPPER, i) = c

IsLowerChar(c) == \E i \in 1..Len(LOWER) : CharAt(LOWER, i) = c

IsCased(c) == IsUpperChar(c) \/ IsLowerChar(c)

LowerChar(c) ==
    IF IsUpperChar(c)
    THEN CharAt(LOWER, CHOOSE i \in 1..Len(UPPER) : CharAt(UPPER, i) = c)
    ELSE c

UpperChar(c) ==
    IF IsLowerChar(c)
    THEN CharAt(UPPER, CHOOSE i \in 1..Len(LOWER) : CharAt(LOWER, i) = c)
    ELSE c

\* str.lower()
RECURSIVE StrLower(_)
StrLower(s) == IF s = "" THEN "" ELSE LowerChar(Head(s)) \o StrLower(Tail(s))

\* str.upper()
RECURSIVE StrUpper(_)
StrUpper(s) == IF s = "" THEN "" ELSE UpperChar(Head(s)) \o StrUpper(Tail(s))

\* str.title(): a cased character is upper-cased when the character before
\* it is not cased, and lower-cased otherwise.
RECURSIVE TitleFrom(_, _)
TitleFrom(s, prevCased) ==
    IF s = "" THEN ""
    ELSE LET c == Head(s)
         IN  (IF prevCased THEN LowerChar(c) ELSE UpperChar(c))
                 \o TitleFrom(Tail(s), IsCased(c))

StrTitle(s) == TitleFrom(s, FALSE)

\* str.startswith(prefix)
StartsWith(s, prefix) ==
    Len(s) >= Len(prefix) /\ SubSeq(s, 1, Len(prefix)) = prefix

\* str.replace(old, new) for a non-empty old: every non-overlapping
\* occurrence, scanning left to right.
RECURSIVE StrReplace(_, _, _)
StrReplace(s, old, new) ==
    IF Len(s) < Len(old) THEN s
    ELSE IF SubSeq(s, 1, Len(old)) = old
         THEN new \o StrReplace(SubSeq(s, Len(old) + 1, Len(s)), old, new)
         ELSE Head(s) \o StrReplace(Tail(s), old, new)

\* str(n) / f"{n}" of an int
RECURSIVE NatStr(_)
NatStr(n) ==
    IF n < 10 THEN CharAt(DIGITS, n + 1)
    ELSE NatStr(n \div 10) \o CharAt(DIGITS, (n % 10) + 1)

IntStr(n) == IF n < 0 THEN "-" \o NatStr(-n) ELSE NatStr(n)

(***************************************************************************)
(* id_translations.py: the static tables.                                  *)
(***************************************************************************)
CHARACTER_NAMES ==
    (10000025 :> "Xingqiu") @@
    (10000030 :> "Zhongli") @@
    (10000031 :> "Fischl") @@
    (10000046 :> "Hutao") @@
    (10000047 :> "Kazuha") @@
    (10000060 :> "Yelan") @@
    (10000073 :> "Nahida") @@
    (10000082 :> "Baizhu") @@
    (10000087 :> "Neuvillette") @@
    (10000089 :> "Furina") @@
    (10000103 :> "Xilonen") @@
    (10000123 :> "Durin")

ARTIFACT_SETS ==
    (15001 :> "Gladiator's Finale") @@
    (15002 :> "Deepwood Memories") @@
    (15003 :> "Gilded Dreams") @@
    (15006 :> "Crimson Witch of Flames") @@
    (15007 :> "Shimenawa's Reminiscence") @@
    (15017 :> "Tenacity of the Millelith") @@
    (15019 :> "Pale Flame") @@
    (15020 :> "Heart of Depth") @@
    (15025 :> "Vourukasha's Glow") @@
    (15026 :> "Nighttime Whispers in the Echoing Woods") @@
    (15028 :> "Song of Days Past") @@
    (15031 :> "Marechaussee Hunter") @@
    (15032 :> "Golden Troupe") @@
    (15037 :> "Fragment of Harmonic Whimsy")

WEAPON_NAMES ==
    (11401 :> "Favonius Sword") @@
    (11403 :> "Sacrificial Sword") @@
    (11422 :> "Lion's Roar") @@
    (11424 :> "The Flute") @@
    (11426 :> "Iron Sting") @@
    (13303 :> "Sacrificial Lance") @@
    (13501 :> "Staff of Homa") @@
    (14403 :> "Sacrificial Fragments") @@
    (14406 :> "Prototype Amber") @@
    (14424 :> "The Widsith") @@
    (15401 :> "Favonius Warbow") @@
    (15409 :> "The Viridescent Hunt")

FIGHT_PROP_NAMES ==
    ("1" :> "HP") @@
    ("2" :> "ATK") @@
    ("3" :> "DEF") @@
    ("4" :> "HP%") @@
    ("5" :> "ATK%") @@
    ("6" :> "DEF%") @@
    ("7" :> "Elemental Mastery") @@
    ("8" :> "Energy Recharge") @@
    ("9" :> "CRIT Rate") @@
    ("20" :> "CRIT DMG") @@
    ("22" :> "Healing Bonus") @@
    ("23" :> "Incoming Healing Bonus") @@
    ("26" :> "Elemental DMG Bonus") @@
    ("27" :> "Physical DMG Bonus") @@
    ("28" :> "Elemental Mastery") @@
    ("40" :> "Pyro DMG Bonus") @@
    ("41" :> "Electro DMG Bonus") @@
    ("42" :> "Hydro DMG Bonus") @@
    ("43" :> "Dendro DMG Bonus") @@
    ("44" :> "Anemo DMG Bonus") @@
    ("45" :> "Geo DMG Bonus") @@
    ("46" :> "Cryo DMG Bonus") @@
    ("50" :> "Pyro RES") @@
    ("51" :> "Electro RES") @@
    ("52" :> "Hydro RES") @@
    ("53" :> "Dendro RES") @@
    ("54" :> "Anemo RES") @@
    ("55" :> "Geo RES") @@
    ("56" :> "Cryo RES")

MAIN_PROP_NAMES ==
    (14001 :> "HP") @@
    (12001 :> "ATK") @@
    (10001 :> "DEF") @@
    (10002 :> "HP%") @@
    (10003 :> "ATK%") @@
    (10004 :> "DEF%") @@
    (10005 :> "Elemental Mastery") @@
    (10006 :> "DEF%") @@
    (10007 :> "Energy Recharge") @@
    (10008 :> "Elemental Mastery") @@
    (13001 :> "CRIT Rate") @@
    (13002 :> "CRIT DMG") @@
    (13003 :> "Healing Bonus") @@
    (13007 :> "CRIT Rate") @@
    (13008 :> "CRIT DMG") @@
    (13010 :> "Elemental Mastery") @@
    (15001 :> "Pyro DMG Bonus") @@
    (15002 :> "Electro DMG Bonus") @@
    (15003 :> "Hydro DMG Bonus") @@
    (15004 :> "Dendro DMG Bonus") @@
    (15005 :> "Anemo DMG Bonus") @@
    (15006 :> "Geo DMG Bonus") @@
    (15007 :> "Cryo DMG Bonus") @@
    (15008 :> "Pyro DMG Bonus") @@
    (15009 :> "Electro DMG Bonus") @@
    (15011 :> "Hydro DMG Bonus") @@
    (15014 :> "Dendro DMG Bonus")

ELEMENTAL_DMG_BONUS ==
    (15001 :> "Pyro DMG Bonus") @@
    (15002 :> "Electro DMG Bonus") @@
    (15003 :> "Hydro DMG Bonus") @@
    (15004 :> "Dendro DMG Bonus") @@
    (15005 :> "Anemo DMG Bonus") @@
    (15006 :> "Geo DMG Bonus") @@
    (15007 :> "Cryo DMG Bonus") @@
    (15008 :> "Pyro DMG Bonus") @@
    (15009 :> "Electro DMG Bonus") @@
    (15011 :> "Hydro DMG Bonus") @@
    (15014 :> "Dendro DMG Bonus")

(***************************************************************************)
(* id_translations.py: the lookups.  dict.get(key, default).               *)
(***************************************************************************)
DictGet(table, key, default) ==
    IF key \in DOMAIN table THEN table[key] ELSE default

\* get_character_name with a default that drops the id.
GetCharacterNameNoId(avatar_id) ==
    DictGet(CHARACTER_NAMES, avatar_id, "Character")

get_character_name(avatar_id) ==
    DictGet(CHARACTER_NAMES, avatar_id, "Character " \o IntStr(avatar_id))

get_artifact_set_name(set_id) ==
    DictGet(ARTIFACT_SETS, set_id, "Set " \o IntStr(set_id))

get_fight_prop_name(prop_key) ==
    DictGet(FIGHT_PROP_NAMES, prop_key, "Prop " \o prop_key)

get_main_prop_name(prop_id) ==
    IF prop_id \in DOMAIN ELEMENTAL_DMG_BONUS
    THEN ELEMENTAL_DMG_BONUS[prop_id]
    ELSE DictGet(MAIN_PROP_NAMES, prop_id, "Prop " \o IntStr(prop_id))

get_weapon_name(weapon_id) ==
    DictGet(WEAPON_NAMES, weapon_id, "Weapon " \o IntStr(weapon_id))

\* The symbolic branch of get_stat_name: the chain of str.replace calls, in
\* source order, each applied to the result of the one before.
SymbolicStatName(stat_id) ==
    LET n0  == StrReplace(stat_id, "FIGHT_PROP_", "")
        n1  == StrTitle(StrReplace(n0, "_", " "))
        n2  == StrReplace(StrReplace(StrReplace(n1, "Hp", "HP"), "Atk", "ATK"), "Def", "DEF")
        n3  == StrReplace(StrReplace(n2, "Crit", "CRIT"), "Crit Hurt", "CRIT DMG")
        n4  == StrReplace(n3, "Base Attack", "Base ATK")
        n5  == StrReplace(n4, "Charge Efficiency", "Energy Recharge")
        n6  == StrReplace(n5, "Element Mastery", "Elemental Mastery")
        n7  == StrReplace(n6, "Fire Add Hurt", "Pyro DMG Bonus")
        n8  == StrReplace(n7, "Water Add Hurt", "Hydro DMG Bonus")
        n9  == StrReplace(n8, "Grass Add Hurt", "Dendro DMG Bonus")
        n10 == StrReplace(n9, "Elec Add Hurt", "Electro DMG Bonus")
        n11 == StrReplace(n10, "Wind Add Hurt", "Anemo DMG Bonus")
        n12 == StrReplace(n11, "Rock Add Hurt", "Geo DMG Bonus")
        n13 == StrReplace(n12, "Ice Add Hurt", "Cryo DMG Bonus")
    IN  n13

\* get_stat_name testing for the tag anywhere in the key
\* ("FIGHT_PROP_" in stat_id) instead of at its start.
StatNameBySubstring(stat_id) ==
    IF \E i \in 1..(Len(stat_id) - Len("FIGHT_PROP_") + 1) :
          SubSeq(stat_id, i, i + Len("FIGHT_PROP_") - 1) = "FIGHT_PROP_"
    THEN [path |-> "symbolic", name |-> SymbolicStatName(stat_id)]
    ELSE [path |-> "numeric",  name |-> get_fight_prop_name(stat_id)]

\* get_stat_name, returning the branch taken along with the name.
StatNameCall(stat_id) ==
    IF StartsWith(stat_id, "FIGHT_PROP_")
    THEN [path |-> "symbolic", name |-> SymbolicStatName(stat_id)]
    ELSE [path |-> "numeric",  name |-> get_fight_prop_name(stat_id)]

get_stat_name(stat_id) == StatNameCall(stat_id).name

(***************************************************************************)
(* Stat formatter: the block repeated at character_gear_table.py 84-87 and *)
(* 95-98 and fetch_player_info_direct.py 232-235, 244-247, 260-263.        *)
(***************************************************************************)
AbsInt(n) == IF n < 0 THEN -n ELSE n

SignStr(n) == IF n < 0 THEN "-" ELSE ""

\* f"{x:.1f}" for x = tenths / 10
Fixed1(tenths) ==
    SignStr(tenths) \o NatStr(AbsInt(tenths) \div 10) \o "."
        \o NatStr(AbsInt(tenths) % 10)

\* f"{x:.0f}" for x = tenths / 10: round half to even (x.5 is exact in
\* binary floating point); the sign of a negative x is kept.
Fixed0(tenths) ==
    LET q == AbsInt(tenths) \div 10
        r == AbsInt(tenths) % 10
        rounded == IF r < 5 THEN q
                   ELSE IF r > 5 THEN q + 1
                   ELSE IF q % 2 = 0 THEN q ELSE q + 1
    IN  SignStr(tenths) \o NatStr(rounded)

\* isinstance(stat_value, float)
IsFloat(stat_value) == stat_value.kind = "float"

\* FormatStat without the isinstance test.
FormatStatAnyNumber(stat_value) ==
    IF stat_value.tenths < 1000
    THEN Fixed1(stat_value.tenths) \o "%"
    ELSE Fixed0(stat_value.tenths)

FormatStat(stat_value) ==
    IF IsFloat(stat_value) /\ stat_value.tenths < 1000
    THEN Fixed1(stat_value.tenths) \o "%"
    ELSE Fixed0(stat_value.tenths)

(***************************************************************************)
(* fetch_player_info_direct.py: the pydantic models.  A raw JSON object is *)
(* a function from the keys it holds to their values; validating it        *)
(* against a model fails when a required key is missing or a nested value  *)
(* fails, ignores extra keys, and gives None to an absent Optional field.  *)
(* Optional[T] is a sequence of length at most one.                        *)
(***************************************************************************)
None == <<>>

Some(x) == <<x>>

Ok(x) == [ok |-> TRUE, value |-> x]

Err == [ok |-> FALSE]

HasKeys(raw, keys) == keys \subseteq DOMAIN raw

\* Union[int, float] tried left to right with coercion: int accepts a float
\* by truncating it toward zero, so every stat value comes out an int.
ValidateStatValueIntFirst(raw) ==
    IF raw.kind = "int"
    THEN [kind |-> "int", tenths |-> raw.tenths]
    ELSE [kind |-> "int",
          tenths |-> (IF raw.tenths < 0 THEN -1 ELSE 1) * 10 * (AbsInt(raw.tenths) \div 10)]

\* Union[int, float] (pydantic's smart mode): a JSON integer matches int
\* exactly and stays an int, a JSON real matches float and stays a float.
ValidateStatValue(raw) ==
    IF raw.kind = "int"
    THEN [kind |-> "int", tenths |-> raw.tenths]
    ELSE [kind |-> "float", tenths |-> raw.tenths]

ValidateReliquarySubstat(raw) ==
    IF HasKeys(raw, {"appendPropId", "statValue"})
    THEN Ok([appendPropId |-> raw.appendPropId,
             statValue |-> ValidateStatValue(raw.statValue)])
    ELSE Err

ValidateReliquaryMainstat(raw) ==
    IF HasKeys(raw, {"mainPropId", "statValue"})
    THEN Ok([mainPropId |-> raw.mainPropId,
             statValue |-> ValidateStatValue(raw.statValue)])
    ELSE Err

ValidateWeaponStat(raw) ==
    IF HasKeys(raw, {"appendPropId", "statValue"})
    THEN Ok([appendPropId |-> raw.appendPropId,
             statValue |-> ValidateStatValue(raw.statValue)])
    ELSE Err

FlatCommonKeys == {"nameTextMapHash", "rankLevel", "itemType", "icon"}

ValidateReliquaryFlat(raw) ==
    LET subs == IF "reliquarySubstats" \in DOMAIN raw
                THEN [i \in 1..Len(raw.reliquarySubstats) |->
                         ValidateReliquarySubstat(raw.reliquarySubstats[i])]
                ELSE <<>>
        main == IF "reliquaryMainstat" \in DOMAIN raw
                THEN ValidateReliquaryMainstat(raw.reliquaryMainstat)
                ELSE Err
    IN  IF /\ HasKeys(raw, FlatCommonKeys \cup {"equipType"})
           /\ \A i \in 1..Len(subs) : subs[i].ok
           /\ ("reliquaryMainstat" \in DOMAIN raw => main.ok)
        THEN Ok([type |-> "ReliquaryFlat",
                 rankLevel |-> raw.rankLevel,
                 itemType |-> raw.itemType,
                 equipType |-> raw.equipType,
                 setId |-> IF "setId" \in DOMAIN raw THEN Some(raw.setId) ELSE None,
                 reliquarySubstats |->
                     IF "reliquarySubstats" \in DOMAIN raw
                     THEN Some([i \in 1..Len(subs) |-> subs[i].value])
                     ELSE None,
                 reliquaryMainstat |->
                     IF "reliquaryMainstat" \in DOMAIN raw
                     THEN Some(main.value)
                     ELSE None])
        ELSE Err

ValidateWeaponFlat(raw) ==
    LET stats == IF "weaponStats" \in DOMAIN raw
                 THEN [i \in 1..Len(raw.weaponStats) |->
                          ValidateWeaponStat(raw.weaponStats[i])]
                 ELSE <<>>
    IN  IF /\ HasKeys(raw, FlatCommonKeys \cup {"weaponStats"})
           /\ \A i \in 1..Len(stats) : stats[i].ok
        THEN Ok([type |-> "WeaponFlat",
                 rankLevel |-> raw.rankLevel,
                 itemType |-> raw.itemType,
                 weaponStats |-> [i \in 1..Len(stats) |-> stats[i].value]])
        ELSE Err

\* flat: Union[ReliquaryFlat, WeaponFlat].  The members are tried on the
\* payload alone; a payload both accept sets at least as many fields of
\* ReliquaryFlat as of WeaponFlat, and the leftmost member wins a tie.
ValidateFlat(raw) ==
    IF ValidateReliquaryFlat(raw).ok THEN ValidateReliquaryFlat(raw)
    ELSE IF ValidateWeaponFlat(raw).ok THEN ValidateWeaponFlat(raw)
    ELSE Err

ValidateReliquary(raw) ==
    IF HasKeys(raw, {"level", "mainPropId", "appendPropIdList"})
    THEN Ok([level |-> raw.level, mainPropId |-> raw.mainPropId,
             appendPropIdList |-> raw.appendPropIdList])
    ELSE Err

ValidateWeapon(raw) ==
    IF HasKeys(raw, {"level", "promoteLevel", "affixMap"})
    THEN Ok([level |-> raw.level, promoteLevel |-> raw.promoteLevel,
             affixMap |-> raw.affixMap])
    ELSE Err

ValidateEquipment(raw) ==
    LET rel  == IF "reliquary" \in DOMAIN raw THEN ValidateReliquary(raw.reliquary) ELSE Err
        weap == IF "weapon" \in DOMAIN raw THEN ValidateWeapon(raw.weapon) ELSE Err
        flat == IF "flat" \in DOMAIN raw THEN ValidateFlat(raw.flat) ELSE Err
    IN  IF /\ HasKeys(raw, {"itemId", "flat"})
           /\ ("reliquary" \in DOMAIN raw => rel.ok)
           /\ ("weapon" \in DOMAIN raw => weap.ok)
           /\ flat.ok
        THEN Ok([itemId |-> raw.itemId,
                 reliquary |-> IF "reliquary" \in DOMAIN raw THEN Some(rel.value) ELSE None,
                 weapon |-> IF "weapon" \in DOMAIN raw THEN Some(weap.value) ELSE None,
                 flat |-> flat.value])
        ELSE Err

AvatarInfoKeys ==
    {"avatarId", "propMap", "fightPropMap", "skillDepotId",
     "inherentProudSkillList", "skillLevelMap", "equipList", "fetterInfo"}

ValidateAvatarInfo(raw) ==
    LET equips == IF "equipList" \in DOMAIN raw
                  THEN [i \in 1..Len(raw.equipList) |-> ValidateEquipment(raw.equipList[i])]
                  ELSE <<>>
    IN  IF /\ HasKeys(raw, AvatarInfoKeys)
           /\ \A i \in 1..Len(equips) : equips[i].ok
        THEN Ok([avatarId |-> raw.avatarId,
                 talentIdList |->
                     IF "talentIdList" \in DOMAIN raw THEN Some(raw.talentIdList) ELSE None,
                 fightPropMap |-> raw.fightPropMap,
                 equipList |-> [i \in 1..Len(equips) |-> equips[i].value]])
        ELSE Err

PlayerInfoKeys ==
    {"nickname", "level", "worldLevel", "nameCardId", "finishAchievementNum",
     "towerFloorIndex", "towerLevelIndex", "showAvatarInfoList", "profilePicture"}

ValidatePlayerInfo(raw) ==
    IF HasKeys(raw, PlayerInfoKeys)
    THEN Ok([nickname |-> raw.nickname, level |-> raw.level,
             worldLevel |-> raw.worldLevel])
    ELSE Err

ResponseKeys == {"playerInfo", "avatarInfoList", "ttl", "uid"}

\* EnkaNetworkResponse(**data)
ValidateResponse(raw) ==
    LET avatars == IF "avatarInfoList" \in DOMAIN raw
                   THEN [i \in 1..Len(raw.avatarInfoList) |->
                            ValidateAvatarInfo(raw.avatarInfoList[i])]
                   ELSE <<>>
        player == IF "playerInfo" \in DOMAIN raw
                  THEN ValidatePlayerInfo(raw.playerInfo)
                  ELSE Err
    IN  IF /\ HasKeys(raw, ResponseKeys)
           /\ player.ok
           /\ \A i \in 1..Len(avatars) : avatars[i].ok
        THEN Ok([playerInfo |-> player.value,
                 avatarInfoList |-> [i \in 1..Len(avatars) |-> avatars[i].value],
                 ttl |-> raw.ttl,
                 uid |-> raw.uid])
        ELSE Err

(***************************************************************************)
(* character_gear_table.py: the query layer.                               *)
(***************************************************************************)
ARTIFACT_TYPE_NAMES ==
    ("EQUIP_BRACER" :> "Flower") @@
    ("EQUIP_NECKLACE" :> "Plume") @@
    ("EQUIP_SHOES" :> "Sands") @@
    ("EQUIP_RING" :> "Goblet") @@
    ("EQUIP_DRESS" :> "Circlet")

artifact_order == <<"Flower", "Plume", "Sands", "Goblet", "Circlet">>

\* FindCharacterFrom comparing the name as stored, not lower-cased.
RECURSIVE FindCharacterExactCase(_, _, _)
FindCharacterExactCase(avatarInfoList, i, character_name_lower) ==
    IF i > Len(avatarInfoList) THEN None
    ELSE IF get_character_name(avatarInfoList[i].avatarId) = character_name_lower
         THEN Some(avatarInfoList[i])
         ELSE FindCharacterExactCase(avatarInfoList, i + 1, character_name_lower)

\* find_character: the loop over data.avatarInfoList from position i on.
RECURSIVE FindCharacterFrom(_, _, _)
FindCharacterFrom(avatarInfoList, i, character_name_lower) ==
    IF i > Len(avatarInfoList) THEN None
    ELSE IF StrLower(get_character_name(avatarInfoList[i].avatarId))
                = character_name_lower
         THEN Some(avatarInfoList[i])
         ELSE FindCharacterFrom(avatarInfoList, i + 1, character_name_lower)

find_character(data, character_name) ==
    FindCharacterFrom(data.avatarInfoList, 1, StrLower(character_name))

\* d[key] = value on a Python dict
DictSet(d, key, value) ==
    [k \in DOMAIN d \cup {key} |-> IF k = key THEN value ELSE d[k]]

\* StatCell showing the stat's id as received, untranslated.
StatCellRawId(stat_id, stat_value) ==
    stat_id \o " " \o FormatStat(stat_value)

\* f"{stat_name} {stat_value...}"
StatCell(stat_id, stat_value) ==
    get_stat_name(stat_id) \o " " \o FormatStat(stat_value)

\* FillSubstats without the "i <= 4" test.
RECURSIVE FillEverySubstat(_, _, _)
FillEverySubstat(artifact_info, substats, i) ==
    IF i > Len(substats) THEN artifact_info
    ELSE FillEverySubstat(
            DictSet(artifact_info, "Substat " \o IntStr(i),
                    Some(StatCell(substats[i].appendPropId, substats[i].statValue))),
            substats, i + 1)

\* The loop "for i, substat in enumerate(flat.reliquarySubstats, 1)".
RECURSIVE FillSubstats(_, _, _)
FillSubstats(artifact_info, substats, i) ==
    IF i > Len(substats) THEN artifact_info
    ELSE FillSubstats(
            IF i <= 4
            THEN DictSet(artifact_info, "Substat " \o IntStr(i),
                         Some(StatCell(substats[i].appendPropId, substats[i].statValue)))
            ELSE artifact_info,
            substats, i + 1)

\* The dictionary built for one reliquary item.
ArtifactInfo(flat) ==
    LET slot_name == DictGet(ARTIFACT_TYPE_NAMES, flat.equipType, "Unknown")
        blank == ("Artifact" :> slot_name) @@ ("Main Stat" :> None) @@
                 ("Substat 1" :> None) @@ ("Substat 2" :> None) @@
                 ("Substat 3" :> None) @@ ("Substat 4" :> None)
        withMain ==
            IF flat.reliquaryMainstat # None
            THEN DictSet(blank, "Main Stat",
                         Some(StatCell(flat.reliquaryMainstat[1].mainPropId,
                                       flat.reliquaryMainstat[1].statValue)))
            ELSE blank
    IN  IF flat.reliquarySubstats # None /\ flat.reliquarySubstats[1] # <<>>
        THEN FillSubstats(withMain, flat.reliquarySubstats[1], 1)
        ELSE withMain

\* The loop over character.equipList: the rows before sorting.
RECURSIVE CollectArtifacts(_, _)
CollectArtifacts(equipList, i) ==
    IF i > Len(equipList) THEN <<>>
    ELSE LET equip == equipList[i]
         IN  (IF equip.reliquary # None /\ equip.flat.type = "ReliquaryFlat"
              THEN <<ArtifactInfo(equip.flat)>>
              ELSE <<>>)
                 \o CollectArtifacts(equipList, i + 1)

\* list.index, 0-based; 999 when absent
SortKey(x) ==
    IF \E i \in 1..Len(artifact_order) : artifact_order[i] = x["Artifact"]
    THEN (CHOOSE i \in 1..Len(artifact_order) : artifact_order[i] = x["Artifact"]) - 1
    ELSE 999

\* list.sort(key=...): stable.  x goes after every element whose key is
\* not greater than its own.
\* InsertByKey placing x before the elements of equal key.
RECURSIVE InsertBeforeEqual(_, _)
InsertBeforeEqual(sorted, x) ==
    IF sorted = <<>> THEN <<x>>
    ELSE IF SortKey(x) <= SortKey(Head(sorted))
         THEN <<x>> \o sorted
         ELSE <<Head(sorted)>> \o InsertBeforeEqual(Tail(sorted), x)

RECURSIVE InsertByKey(_, _)
InsertByKey(sorted, x) ==
    IF sorted = <<>> THEN <<x>>
    ELSE IF SortKey(x) < SortKey(Head(sorted))
         THEN <<x>> \o sorted
         ELSE <<Head(sorted)>> \o InsertByKey(Tail(sorted), x)

RECURSIVE SortArtifacts(_, _)
SortArtifacts(artifacts, n) ==
    IF n = 0 THEN <<>>
    ELSE InsertByKey(SortArtifacts(artifacts, n - 1), artifacts[n])

extract_artifact_details(character) ==
    LET artifacts == CollectArtifacts(character.equipList, 1)
    IN  SortArtifacts(artifacts, Len(artifacts))

(***************************************************************************)
(* fetch_player_info_direct.py: the API client.  A response is what the    *)
(* session gives back: a transport failure (the request raises), or a      *)
(* status with a body; body is None when it does not decode as JSON.       *)
(***************************************************************************)
\* fetch_player_data parsing the body whatever the status.
FetchIgnoringStatus(response) ==
    IF response.transport # "ok" THEN None
    ELSE IF response.body = None THEN None
         ELSE IF ValidateResponse(response.body[1]).ok
              THEN Some(ValidateResponse(response.body[1]).value)
              ELSE None

fetch_player_data(response) ==
    IF response.transport # "ok" THEN None                \* except Exception
    ELSE IF response.status = 200
         THEN IF response.body = None THEN None           \* response.json() raises
              ELSE IF ValidateResponse(response.body[1]).ok
                   THEN Some(ValidateResponse(response.body[1]).value)
                   ELSE None                              \* ValidationError
         ELSE None

(***************************************************************************)
(* State.                                                                  *)
(***************************************************************************)
VARIABLES
    callFn,     \* pure function last called ("none" before any call)
    callArg,    \* its argument
    callRet,    \* what it returned
    callPath,   \* get_stat_name: the branch taken ("symbolic" / "numeric")
    pc,         \* character_gear_table.main: position
    argv,       \* sys.argv
    response,   \* the HTTP response fetch_player_data received, if any
    data,       \* main's data: None or the validated EnkaNetworkResponse
    character,  \* main's character: None or the AvatarInfo found
    df,         \* main's df: None or the rows of the artifact table
    stdout,     \* what main printed, in order
    csv,        \* the CSV file written, if any
    exitCode    \* None while running; the process exit status after

callVars == <<callFn, callArg, callRet, callPath>>

mainVars == <<pc, argv, response, data, character, df, stdout, csv, exitCode>>

vars == <<callFn, callArg, callRet, callPath,
          pc, argv, response, data, character, df, stdout, csv, exitCode>>

(***************************************************************************)
(* Inputs.  Bounds of the model.                                           *)
(***************************************************************************)
MaxTenths == 1030

MaxSubstats == 5

MaxEquips == 3

MaxPieces == 6

MaxAvatars == 2

MaxFind == 3

EmptyObject == [k \in {} |-> k]

Field(key, value) == key :> value

RawStat(kind, tenths) == [kind |-> kind, tenths |-> tenths]

\* Stat values: every integer and every one-decimal float from -1.5 up to
\* MaxTenths / 10, and a few large ones.
StatValues ==
    { RawStat("float", t) : t \in (-15..MaxTenths) \cup {3110, 47805} } \cup
    { RawStat("int", 10 * n) : n \in (-2..(MaxTenths \div 10)) \cup {311, 4780} }

FlatCommon ==
    [nameTextMapHash |-> "1632377563", rankLevel |-> 5,
     itemType |-> "ITEM_RELIQUARY", icon |-> "UI_RelicIcon_15032_3"]

FlatNoIcon ==
    [nameTextMapHash |-> "1632377563", rankLevel |-> 5, itemType |-> "ITEM_RELIQUARY"]

GoodMainstat == [mainPropId |-> "FIGHT_PROP_HP", statValue |-> RawStat("int", 47800)]

CritMainstat == [mainPropId |-> "20", statValue |-> RawStat("float", 623)]

AtkMainstat == [mainPropId |-> "FIGHT_PROP_ATTACK_PERCENT", statValue |-> RawStat("float", 466)]

BadMainstat == [mainPropId |-> "FIGHT_PROP_HP"]

\* Substats a piece can roll, in the order the API lists them.
SubstatPool ==
    << [appendPropId |-> "FIGHT_PROP_CRITICAL", statValue |-> RawStat("float", 102)],
       [appendPropId |-> "FIGHT_PROP_ATTACK", statValue |-> RawStat("int", 350)],
       [appendPropId |-> "FIGHT_PROP_CHARGE_EFFICIENCY", statValue |-> RawStat("float", 74)],
       [appendPropId |-> "FIGHT_PROP_HP", statValue |-> RawStat("float", 5080)],
       [appendPropId |-> "7", statValue |-> RawStat("int", 400)],
       [appendPropId |-> "FIGHT_PROP_DEFENSE", statValue |-> RawStat("int", 1000)],
       [appendPropId |-> "999", statValue |-> RawStat("float", 1000)] >>

Substats(k) == SubSeq(SubstatPool, 1, k)

WeaponStats ==
    << [appendPropId |-> "FIGHT_PROP_BASE_ATTACK", statValue |-> RawStat("int", 6080)],
       [appendPropId |-> "FIGHT_PROP_CRITICAL_HURT", statValue |-> RawStat("float", 662)] >>

RawReliquary == [level |-> 21, mainPropId |-> 15001, appendPropIdList |-> <<501224, 501054>>]

RawReliquaryNoLevel == [mainPropId |-> 15001, appendPropIdList |-> <<>>]

RawWeapon == [level |-> 90, promoteLevel |-> 6, affixMap |-> [a111401 |-> 4]]

\* flat payloads: with or without the common keys, the reliquary keys and
\* the weapon key, in every combination.
RawFlats ==
    { common @@ et @@ ws @@ ms @@ ss :
        common \in {FlatCommon, FlatNoIcon},
        et \in {EmptyObject} \cup
               {Field("equipType", t) : t \in {"EQUIP_BRACER", "EQUIP_DRESS", "EQUIP_XYZ"}},
        ws \in {EmptyObject, Field("weaponStats", <<>>), Field("weaponStats", WeaponStats),
                Field("weaponStats", <<[appendPropId |-> "FIGHT_PROP_BASE_ATTACK"]>>)},
        ms \in {EmptyObject, Field("reliquaryMainstat", CritMainstat),
                Field("reliquaryMainstat", BadMainstat)},
        ss \in {EmptyObject, Field("reliquarySubstats", Substats(2))} }

RawCores ==
    { r @@ w :
        r \in {EmptyObject, Field("reliquary", RawReliquary),
               Field("reliquary", RawReliquaryNoLevel)},
        w \in {EmptyObject, Field("weapon", RawWeapon)} }

RawEquips ==
    { Field("itemId", 73543) @@ core @@ Field("flat", flat) :
        core \in RawCores, flat \in RawFlats } \cup
    { Field("itemId", 73543) @@ core : core \in RawCores }

(***************************************************************************)
(* Translation lookups: ids are drawn from every key of the table and from *)
(* ids no table holds.                                                     *)
(***************************************************************************)
UnknownIds == {-5, 0, 7, 10000026, 99999999}

CharacterIds == DOMAIN CHARACTER_NAMES \cup UnknownIds

ArtifactSetIds == DOMAIN ARTIFACT_SETS \cup UnknownIds

WeaponIds == DOMAIN WEAPON_NAMES \cup UnknownIds

MainPropIds == DOMAIN MAIN_PROP_NAMES \cup DOMAIN ELEMENTAL_DMG_BONUS \cup UnknownIds

FightPropKeys == DOMAIN FIGHT_PROP_NAMES \cup {"", "0", "21", "999", "HP", "-1"}

StatKeys ==
    FightPropKeys \cup
    { "FIGHT_PROP_HP", "FIGHT_PROP_HP_PERCENT", "FIGHT_PROP_ATTACK",
      "FIGHT_PROP_BASE_ATTACK", "FIGHT_PROP_DEFENSE", "FIGHT_PROP_ATK_PERCENT",
      "FIGHT_PROP_CRITICAL", "FIGHT_PROP_CRITICAL_HURT", "FIGHT_PROP_CRIT_HURT",
      "FIGHT_PROP_CHARGE_EFFICIENCY", "FIGHT_PROP_ELEMENT_MASTERY",
      "FIGHT_PROP_FIRE_ADD_HURT", "FIGHT_PROP_ICE_ADD_HURT",
      "FIGHT_PROP_", "FIGHT_PROP_20", "FIGHT_PROP", "fight_prop_hp",
      "XFIGHT_PROP_HP", "HP_FIGHT_PROP_" }

SeqsUpTo(S, n) == UNION { [1..k -> S] : k \in 0..n }

RawPiece(core, flat) == Field("itemId", 73543) @@ core @@ Field("flat", flat)

ReliquaryCore == Field("reliquary", RawReliquary)

WeaponCore == Field("weapon", RawWeapon)

EquipTypes ==
    {"EQUIP_BRACER", "EQUIP_NECKLACE", "EQUIP_SHOES", "EQUIP_RING", "EQUIP_DRESS", "EQUIP_XYZ"}

RawWeaponFlat == FlatCommon @@ Field("weaponStats", WeaponStats)

\* Pieces of every slot kind, and a second Flower, Circlet and unknown-slot
\* piece told apart from the first by its main stat.
SortPieces ==
    { RawPiece(ReliquaryCore,
               FlatCommon @@ Field("equipType", t) @@ Field("reliquaryMainstat", GoodMainstat)) :
        t \in EquipTypes } \cup
    { RawPiece(ReliquaryCore,
               FlatCommon @@ Field("equipType", t) @@ Field("reliquaryMainstat", AtkMainstat)) :
        t \in {"EQUIP_BRACER", "EQUIP_DRESS", "EQUIP_XYZ"} }

\* Circlets with every main stat choice and 0..MaxSubstats substats, or none.
RowPieces ==
    { RawPiece(ReliquaryCore, FlatCommon @@ Field("equipType", "EQUIP_DRESS") @@ ms @@ ss) :
        ms \in {EmptyObject, Field("reliquaryMainstat", CritMainstat),
                Field("reliquaryMainstat", GoodMainstat)},
        ss \in {EmptyObject} \cup
               {Field("reliquarySubstats", Substats(k)) : k \in 0..MaxSubstats} }

\* Items by core and flat variant.
CorePieces ==
    { RawPiece(ReliquaryCore,
               FlatCommon @@ Field("equipType", "EQUIP_BRACER")
                   @@ Field("reliquaryMainstat", GoodMainstat)),
      RawPiece(WeaponCore, RawWeaponFlat),
      RawPiece(ReliquaryCore, RawWeaponFlat) }

RawEquipLists ==
    SeqsUpTo(SortPieces, MaxEquips) \cup SeqsUpTo(RowPieces, 1)
        \cup SeqsUpTo(CorePieces, MaxPieces)

RawAvatar(avatarId, equipList) ==
    [avatarId |-> avatarId,
     propMap |-> [p4001 |-> [type |-> 4001, val |-> "90"]],
     fightPropMap |-> [p1 |-> 152340, p20 |-> 7],
     skillDepotId |-> 8901,
     inherentProudSkillList |-> <<892101>>,
     skillLevelMap |-> [s10891 |-> 9],
     equipList |-> equipList,
     fetterInfo |-> [expLevel |-> 10]]

\* The characters extract_artifact_details is given: validated AvatarInfo.
Characters ==
    { ValidateAvatarInfo(RawAvatar(10000089, l)).value :
        l \in { r \in RawEquipLists : ValidateAvatarInfo(RawAvatar(10000089, r)).ok } }

RawPlayerInfo ==
    [nickname |-> "Traveler", level |-> 60, worldLevel |-> 9, nameCardId |-> 210001,
     finishAchievementNum |-> 900, towerFloorIndex |-> 12, towerLevelIndex |-> 3,
     showAvatarInfoList |-> <<>>, profilePicture |-> [id |-> 1]]

RawBody(avatars) ==
    [playerInfo |-> RawPlayerInfo, avatarInfoList |-> avatars,
     ttl |-> 60, uid |-> "657846809"]

CircletPiece ==
    RawPiece(ReliquaryCore,
             FlatCommon @@ Field("equipType", "EQUIP_DRESS")
                 @@ Field("reliquaryMainstat", CritMainstat))

\* The same circlet with an empty substat list.
CircletNoSubstats ==
    RawPiece(ReliquaryCore,
             FlatCommon @@ Field("equipType", "EQUIP_DRESS")
                 @@ Field("reliquaryMainstat", CritMainstat)
                 @@ Field("reliquarySubstats", <<>>))

GobletPiece ==
    RawPiece(ReliquaryCore,
             FlatCommon @@ Field("equipType", "EQUIP_RING")
                 @@ Field("reliquaryMainstat", AtkMainstat)
                 @@ Field("reliquarySubstats", Substats(4)))

FlowerPiece ==
    RawPiece(ReliquaryCore,
             FlatCommon @@ Field("equipType", "EQUIP_BRACER")
                 @@ Field("reliquaryMainstat", GoodMainstat)
                 @@ Field("reliquarySubstats", Substats(3)))

WeaponPiece == RawPiece(WeaponCore, RawWeaponFlat)

\* find_character's profiles: up to MaxFind characters, two of them the same
\* character with different equipment, two with ids no table holds.
FindAvatars ==
    { RawAvatar(10000089, <<CircletPiece>>), RawAvatar(10000089, <<>>),
      RawAvatar(10000025, <<>>), RawAvatar(99999999, <<>>), RawAvatar(7, <<>>) }

FindProfiles ==
    { ValidateResponse(RawBody(l)).value : l \in SeqsUpTo(FindAvatars, MaxFind) }

FindQueries ==
    { "Furina", "furina", "FURINA", "Xingqiu", "xINGQIU", "Zhongli", "",
      "Character 99999999", "character 99999999", "99999999", "Character 7",
      "Character 10000089", "Furin" }

\* The gear-table run: what the API may answer and what the user may type.
MainAvatars ==
    { RawAvatar(10000089, <<CircletPiece, WeaponPiece>>),
      RawAvatar(10000089, <<CircletNoSubstats>>),
      RawAvatar(10000025, <<GobletPiece, FlowerPiece>>),
      RawAvatar(99999999, <<>>),
      [avatarId |-> 10000030, equipList |-> <<>>],
      RawAvatar(10000031, <<RawPiece(WeaponCore, FlatNoIcon)>>) }

RawBodies ==
    { RawBody(l) : l \in SeqsUpTo(MainAvatars, MaxAvatars) } \cup
    { [playerInfo |-> RawPlayerInfo,
       avatarInfoList |-> <<RawAvatar(10000089, <<CircletPiece>>)>>,
       uid |-> "657846809"],
      [playerInfo |-> [nickname |-> "Traveler"],
       avatarInfoList |-> <<RawAvatar(10000089, <<CircletPiece>>)>>,
       ttl |-> 60, uid |-> "657846809"] }

Responses ==
    { [transport |-> "error", status |-> 0, body |-> None] } \cup
    { [transport |-> "ok", status |-> s, body |-> b] :
        s \in {200, 404, 424}, b \in {None} \cup { Some(x) : x \in RawBodies } }

Argvs ==
    { <<"character_gear_table.py">> } \cup
    { <<"character_gear_table.py", name>> :
        name \in {"furina", "Xingqiu", "Character 99999999", "Zhongli"} }

(***************************************************************************)
(* Calls of the pure functions.                                            *)
(***************************************************************************)
NoCall ==
    /\ callFn = "none"
    /\ callArg = "none"
    /\ callRet = "none"
    /\ callPath = "none"

MainStart ==
    /\ pc = "start"
    /\ response = None
    /\ data = None
    /\ character = None
    /\ df = None
    /\ stdout = <<>>
    /\ csv = None
    /\ exitCode = None

\* A pure function is called once, on any input of its set.
CallInit ==
    /\ NoCall
    /\ MainStart
    /\ argv = <<"character_gear_table.py">>

Call(fn, arg, ret) ==
    /\ callFn = "none"
    /\ callFn' = fn
    /\ callArg' = arg
    /\ callRet' = ret
    /\ callPath' = "none"
    /\ UNCHANGED mainVars

CallGetCharacterName ==
    \E id \in CharacterIds : Call("get_character_name", id, get_character_name(id))

CallGetArtifactSetName ==
    \E id \in ArtifactSetIds : Call("get_artifact_set_name", id, get_artifact_set_name(id))

CallGetFightPropName ==
    \E key \in FightPropKeys : Call("get_fight_prop_name", key, get_fight_prop_name(key))

CallGetMainPropName ==
    \E id \in MainPropIds : Call("get_main_prop_name", id, get_main_prop_name(id))

CallGetWeaponName ==
    \E id \in WeaponIds : Call("get_weapon_name", id, get_weapon_name(id))

CallGetStatName ==
    \E key \in StatKeys :
        /\ callFn = "none"
        /\ callFn' = "get_stat_name"
        /\ callArg' = key
        /\ callRet' = StatNameCall(key).name
        /\ callPath' = StatNameCall(key).path
        /\ UNCHANGED mainVars

CallFormatStat ==
    \E v \in StatValues : Call("format", v, FormatStat(v))

CallValidateEquipment ==
    \E raw \in RawEquips : Call("Equipment", raw, ValidateEquipment(raw))

CallExtractArtifactDetails ==
    \E c \in Characters :
        Call("extract_artifact_details", c, extract_artifact_details(c))

CallFindCharacter ==
    \E d \in FindProfiles, name \in FindQueries :
        Call("find_character", <<d, name>>, find_character(d, name))

\* The stat records of the API, with the statValue key or without it.
RawStatRecords(idKey) ==
    { Field(idKey, id) @@ sv :
        id \in {"FIGHT_PROP_HP", "20"},
        sv \in {EmptyObject} \cup { Field("statValue", v) : v \in StatValues } }

CallValidateReliquarySubstat ==
    \E raw \in RawStatRecords("appendPropId") :
        Call("ReliquarySubstat", raw, ValidateReliquarySubstat(raw))

CallValidateReliquaryMainstat ==
    \E raw \in RawStatRecords("mainPropId") :
        Call("ReliquaryMainstat", raw, ValidateReliquaryMainstat(raw))

CallValidateWeaponStat ==
    \E raw \in RawStatRecords("appendPropId") :
        Call("WeaponStat", raw, ValidateWeaponStat(raw))

StatNext ==
    \/ CallValidateReliquarySubstat
    \/ CallValidateReliquaryMainstat
    \/ CallValidateWeaponStat

LookupNext ==
    \/ CallGetCharacterName
    \/ CallGetArtifactSetName
    \/ CallGetFightPropName
    \/ CallGetMainPropName
    \/ CallGetWeaponName
    \/ CallGetStatName

SpecLookup == CallInit /\ [][LookupNext]_vars

SpecFormat == CallInit /\ [][CallFormatStat]_vars

SpecStat == CallInit /\ [][StatNext]_vars

SpecValidate == CallInit /\ [][CallValidateEquipment]_vars

SpecExtract == CallInit /\ [][CallExtractArtifactDetails]_vars

SpecFind == CallInit /\ [][CallFindCharacter]_vars

(***************************************************************************)
(* character_gear_table.py: main.                                          *)
(***************************************************************************)
Init ==
    /\ NoCall
    /\ MainStart
    /\ argv \in Argvs

Exit(code) ==
    /\ exitCode' = Some(code)
    /\ pc' = "exited"

\* len(sys.argv) < 2: usage and sys.exit(1)
MainCheckArgs ==
    /\ pc = "start"
    /\ IF Len(argv) < 2
       THEN /\ stdout' = Append(stdout, [line |-> "usage"])
            /\ Exit(1)
       ELSE /\ stdout' = Append(stdout, [line |-> "fetching"])
            /\ pc' = "fetching"
            /\ UNCHANGED exitCode
    /\ UNCHANGED <<argv, response, data, character, df, csv>>
    /\ UNCHANGED callVars

\* data = await fetch_player_data(uid)
MainFetch ==
    /\ pc = "fetching"
    /\ \E r \in Responses :
        /\ response' = Some(r)
        /\ data' = fetch_player_data(r)
    /\ pc' = "fetched"
    /\ UNCHANGED <<argv, character, df, stdout, csv, exitCode>>
    /\ UNCHANGED callVars

\* if not data: sys.exit(1)
MainCheckData ==
    /\ pc = "fetched"
    /\ IF data = None
       THEN /\ stdout' = Append(stdout, [line |-> "fetch-error"])
            /\ Exit(1)
       ELSE /\ pc' = "finding"
            /\ UNCHANGED <<stdout, exitCode>>
    /\ UNCHANGED <<argv, response, data, character, df, csv>>
    /\ UNCHANGED callVars

\* character = find_character(data, character_name)
MainFind ==
    /\ pc = "finding"
    /\ character' = find_character(data[1], argv[2])
    /\ pc' = "searched"
    /\ UNCHANGED <<argv, response, data, df, stdout, csv, exitCode>>
    /\ UNCHANGED callVars

\* MainNotFound listing every character by its raw id, untranslated.
MainNotFoundRawIds ==
    /\ pc = "searched"
    /\ character = None
    /\ stdout' = stdout \o
         << [line |-> "not-found", name |-> argv[2]] >> \o
         [i \in 1..Len(data[1].avatarInfoList) |->
            [line |-> "available",
             name |-> IntStr(data[1].avatarInfoList[i].avatarId)]]
    /\ Exit(1)
    /\ UNCHANGED <<argv, response, data, character, df, csv>>
    /\ UNCHANGED callVars

\* if not character: list the available characters and sys.exit(1)
MainNotFound ==
    /\ pc = "searched"
    /\ character = None
    /\ stdout' = stdout \o
         << [line |-> "not-found", name |-> argv[2]] >> \o
         [i \in 1..Len(data[1].avatarInfoList) |->
            [line |-> "available",
             name |-> get_character_name(data[1].avatarInfoList[i].avatarId)]]
    /\ Exit(1)
    /\ UNCHANGED <<argv, response, data, character, df, csv>>
    /\ UNCHANGED callVars

\* df = create_artifact_table(character, character_name)
MainCreateTable ==
    /\ pc = "searched"
    /\ character # None
    /\ stdout' = Append(stdout, [line |-> "found", name |-> argv[2]])
    /\ df' = Some(extract_artifact_details(character[1]))
    /\ pc' = "table"
    /\ UNCHANGED <<argv, response, data, character, csv, exitCode>>
    /\ UNCHANGED callVars

\* display_artifact_table(df, character_name)
MainDisplay ==
    /\ pc = "table"
    /\ stdout' = Append(stdout,
           [line |-> "table", name |-> StrUpper(argv[2]), rows |-> df[1]])
    /\ pc' = "displayed"
    /\ UNCHANGED <<argv, response, data, character, df, csv, exitCode>>
    /\ UNCHANGED callVars

\* export_to_csv(df, character_name); main returns
MainExport ==
    /\ pc = "displayed"
    /\ csv' = Some([filename |-> StrLower(argv[2]) \o "_artifacts.csv", rows |-> df[1]])
    /\ stdout' = Append(stdout, [line |-> "exported"])
    /\ exitCode' = Some(0)
    /\ pc' = "exited"
    /\ UNCHANGED <<argv, response, data, character, df>>
    /\ UNCHANGED callVars

Next ==
    \/ MainCheckArgs
    \/ MainFetch
    \/ MainCheckData
    \/ MainFind
    \/ MainNotFound
    \/ MainCreateTable
    \/ MainDisplay
    \/ MainExport

Spec == Init /\ [][Next]_vars

(***************************************************************************)
(* Properties.                                                             *)
(***************************************************************************)
IsDigitChar(c) == \E i \in 1..Len(DIGITS) : CharAt(DIGITS, i) = c

AllDigits(s) == Len(s) > 0 /\ \A i \in 1..Len(s) : IsDigitChar(CharAt(s, i))

Unsigned(s) == IF StartsWith(s, "-") THEN Tail(s) ELSE s

\* An integer string: digits only, after an optional sign.
IsIntegerString(s) == AllDigits(Unsigned(s))

\* digits "." digit "%", after an optional sign
IsOneDecimalPercent(s) ==
    LET u == Unsigned(s)
        n == Len(u)
    IN  /\ n >= 4
        /\ CharAt(u, n) = "%"
        /\ IsDigitChar(CharAt(u, n - 1))
        /\ CharAt(u, n - 2) = "."
        /\ AllDigits(SubSeq(u, 1, n - 3))

DigitValue(c) == (CHOOSE i \in 1..Len(DIGITS) : CharAt(DIGITS, i) = c) - 1

RECURSIVE ParseNat(_)
ParseNat(s) ==
    IF s = "" THEN 0
    ELSE 10 * ParseNat(SubSeq(s, 1, Len(s) - 1)) + DigitValue(CharAt(s, Len(s)))

\* int(s)
ParseInt(s) == IF StartsWith(s, "-") THEN -ParseNat(Tail(s)) ELSE ParseNat(s)

\* The value a one-decimal percentage shows, in tenths.
PercentTenths(s) ==
    LET u == Unsigned(s)
        n == Len(u)
        t == 10 * ParseNat(SubSeq(u, 1, n - 3)) + DigitValue(CharAt(u, n - 1))
    IN  IF StartsWith(s, "-") THEN -t ELSE t

HasCore(raw, core) == core \in DOMAIN raw

\* C1: in every equipment record that validates, the core that is set
\* decides the variant of flat: reliquary gives a ReliquaryFlat, weapon gives
\* a WeaponFlat.
C1_SiblingCoreDecidesFlat ==
    (callFn = "Equipment" /\ callRet.ok) =>
        /\ callRet.value.reliquary # None => callRet.value.flat.type = "ReliquaryFlat"
        /\ callRet.value.weapon # None => callRet.value.flat.type = "WeaponFlat"

\* C2: an equipment record validates only if exactly one of reliquary and
\* weapon is set and the flat payload has the shape of the core that is set.
C2_ValidationRejectsBadCores ==
    (callFn = "Equipment" /\ callRet.ok) =>
        /\ HasCore(callArg, "reliquary") # HasCore(callArg, "weapon")
        /\ HasCore(callArg, "reliquary") => ValidateReliquaryFlat(callArg.flat).ok
        /\ HasCore(callArg, "weapon") => ValidateWeaponFlat(callArg.flat).ok

\* C3: a stat value is shown as a one-decimal percentage exactly when it is
\* a float below 100, and as an integer string otherwise; float 0.0 gives
\* "0.0%", integer 0 gives "0", integer 35 gives "35", float 100.0 gives "100".
C3_PercentIffFloatBelow100 ==
    callFn = "format" =>
        /\ (callArg.kind = "float" /\ callArg.tenths < 1000) =>
              /\ IsOneDecimalPercent(callRet)
              /\ PercentTenths(callRet) = callArg.tenths
        /\ ~(callArg.kind = "float" /\ callArg.tenths < 1000) =>
              IsIntegerString(callRet)
        /\ callArg = RawStat("float", 0) => callRet = "0.0%"
        /\ callArg = RawStat("int", 0) => callRet = "0"
        /\ callArg = RawStat("int", 350) => callRet = "35"
        /\ callArg = RawStat("float", 1000) => callRet = "100"

\* Float 100.0 has been formatted, and came out without a percent sign.
C3_Witness ==
    callFn = "format" /\ callArg = RawStat("float", 1000) /\ callRet = "100"

Columns ==
    {"Artifact", "Main Stat", "Substat 1", "Substat 2", "Substat 3", "Substat 4"}

\* Position of a slot name in the fixed order; 6 for any other name.
SlotRank(name) ==
    CASE name = "Flower" -> 1
      [] name = "Plume" -> 2
      [] name = "Sands" -> 3
      [] name = "Goblet" -> 4
      [] name = "Circlet" -> 5
      [] OTHER -> 6

RowsOfRank(rows, r) ==
    LET HasRank(row) == SlotRank(row["Artifact"]) = r
    IN  SelectSeq(rows, HasRank)

SlotNames(rows) == [i \in 1..Len(rows) |-> rows[i]["Artifact"]]

\* The rows of a character in equipList order, before the sort.
UnsortedRows(c) == CollectArtifacts(c.equipList, 1)

\* C4: the rows come out in the order Flower, Plume, Sands, Goblet, Circlet,
\* rows of any other slot name last, and rows of one rank in equipList order;
\* [Goblet, Flower] comes out as [Flower, Goblet].
C4_RowsInSlotOrder ==
    callFn = "extract_artifact_details" =>
        LET unsorted == UnsortedRows(callArg)
            ranks == [i \in 1..Len(callRet) |-> SlotRank(callRet[i]["Artifact"])]
        IN  /\ Len(callRet) = Len(unsorted)
            /\ \A i, j \in 1..Len(callRet) : i < j => ranks[i] <= ranks[j]
            /\ \A r \in 1..6 : RowsOfRank(callRet, r) = RowsOfRank(unsorted, r)
            /\ SlotNames(unsorted) = <<"Goblet", "Flower">> =>
                  SlotNames(callRet) = <<"Flower", "Goblet">>

\* An unknown-slot piece listed first and two different Flowers after it
\* have been sorted: both Flowers first, in their order, the unknown last.
C4_Witness ==
    /\ callFn = "extract_artifact_details"
    /\ SlotNames(UnsortedRows(callArg)) = <<"Unknown", "Flower", "Flower">>
    /\ UnsortedRows(callArg)[2] # UnsortedRows(callArg)[3]
    /\ callRet = <<UnsortedRows(callArg)[2], UnsortedRows(callArg)[3],
                   UnsortedRows(callArg)[1]>>

\* The cell a substat is shown as.
SubstatCell(substat) ==
    Some(get_stat_name(substat.appendPropId) \o " " \o FormatStat(substat.statValue))

SubstatColumn(i) ==
    CASE i = 1 -> "Substat 1" [] i = 2 -> "Substat 2"
      [] i = 3 -> "Substat 3" [] i = 4 -> "Substat 4"

SubstatsOf(flat) ==
    IF flat.reliquarySubstats = None THEN <<>> ELSE flat.reliquarySubstats[1]

\* C5: every row has exactly the six columns; the row of a piece has a blank
\* Main Stat when the piece has no main stat, its first four substats in
\* source order in Substat 1..4, and blanks in the columns past its last.
C5_RowHasSixColumns ==
    callFn = "extract_artifact_details" =>
        /\ \A i \in 1..Len(callRet) : DOMAIN callRet[i] = Columns
        /\ (Len(callArg.equipList) = 1 /\ Len(callRet) = 1) =>
              LET flat == callArg.equipList[1].flat
                  row == callRet[1]
              IN  /\ (flat.reliquaryMainstat = None) <=> (row["Main Stat"] = None)
                  /\ \A i \in 1..4 :
                        row[SubstatColumn(i)] =
                            IF i <= Len(SubstatsOf(flat))
                            THEN SubstatCell(SubstatsOf(flat)[i])
                            ELSE None

\* A piece with five substats and no main stat has been made a row: four
\* substat cells filled, Main Stat blank.
C5_Witness ==
    /\ callFn = "extract_artifact_details"
    /\ Len(callArg.equipList) = 1
    /\ callArg.equipList[1].flat.type = "ReliquaryFlat"
    /\ Len(SubstatsOf(callArg.equipList[1].flat)) = 5
    /\ callArg.equipList[1].flat.reliquaryMainstat = None
    /\ Len(callRet) = 1
    /\ callRet[1]["Substat 4"] # None
    /\ callRet[1]["Main Stat"] = None

ReliquaryItems(c) == { i \in 1..Len(c.equipList) : c.equipList[i].reliquary # None }

\* C6: a validated character gets exactly one row for each equipped item
\* with a reliquary core, and never more than 5 rows.
C6_OneRowPerReliquaryItem ==
    callFn = "extract_artifact_details" =>
        /\ Len(callRet) = Cardinality(ReliquaryItems(callArg))
        /\ Len(callRet) <= 5

MatchingPositions(avatarInfoList, name) ==
    { i \in 1..Len(avatarInfoList) :
        StrLower(get_character_name(avatarInfoList[i].avatarId)) = StrLower(name) }

MinOf(S) == CHOOSE i \in S : \A j \in S : i <= j

FirstMatchOrNone ==
    LET list == callArg[1].avatarInfoList
        hits == MatchingPositions(list, callArg[2])
    IN  callRet = IF hits = {} THEN None ELSE Some(list[MinOf(hits)])

\* C7 as stated: find_character returns the first character whose translated
\* name equals the query ignoring case, None when there is none, and a
\* character with no table entry only for the query "Character {id}" itself.
C7_FallbackMatchedExactly ==
    callFn = "find_character" =>
        /\ FirstMatchOrNone
        /\ (callRet # None /\ callRet[1].avatarId \notin DOMAIN CHARACTER_NAMES) =>
              callArg[2] = "Character " \o IntStr(callRet[1].avatarId)

\* C7 amended: as above, but a character with no table entry is returned
\* for every query that equals "Character {id}" ignoring letter case, and for
\* no other.
C7_FallbackMatchedIgnoringCase ==
    callFn = "find_character" =>
        /\ FirstMatchOrNone
        /\ (callRet # None /\ callRet[1].avatarId \notin DOMAIN CHARACTER_NAMES) =>
              StrLower(callArg[2]) = StrLower("Character " \o IntStr(callRet[1].avatarId))
        /\ \A i \in 1..Len(callArg[1].avatarInfoList) :
              LET id == callArg[1].avatarInfoList[i].avatarId
              IN  (id \notin DOMAIN CHARACTER_NAMES
                     /\ StrLower(callArg[2]) = StrLower("Character " \o IntStr(id)))
                  => callRet # None

\* The query "character 99999999" on a profile that lists Furina first has
\* returned the character with id 99999999, listed after her.
C7_Witness ==
    /\ callFn = "find_character"
    /\ callArg[2] = "character 99999999"
    /\ Len(callArg[1].avatarInfoList) >= 2
    /\ callArg[1].avatarInfoList[1].avatarId = 10000089
    /\ callRet # None
    /\ callRet[1].avatarId = 99999999

\* label, one space, and the raw id
IsPlaceholder(s, label, id) ==
    /\ StartsWith(s, label \o " ")
    /\ IsIntegerString(SubSeq(s, Len(label) + 2, Len(s)))
    /\ ParseInt(SubSeq(s, Len(label) + 2, Len(s))) = id

MappedOrPlaceholder(table, label) ==
    IF callArg \in DOMAIN table
    THEN callRet = table[callArg]
    ELSE IsPlaceholder(callRet, label, callArg)

\* C8: each lookup returns the table's name for an id the table holds and
\* the placeholder "<label> <id>" for any other id ("Character <id>" for a
\* character); it always returns a string.
C8_LookupIsTotal ==
    /\ callFn = "get_character_name" =>
          /\ MappedOrPlaceholder(CHARACTER_NAMES, "Character")
          /\ callArg \notin DOMAIN CHARACTER_NAMES =>
                callRet = "Character " \o IntStr(callArg)
    /\ callFn = "get_artifact_set_name" => MappedOrPlaceholder(ARTIFACT_SETS, "Set")
    /\ callFn = "get_weapon_name" => MappedOrPlaceholder(WEAPON_NAMES, "Weapon")
    /\ callFn = "get_main_prop_name" =>
          /\ MappedOrPlaceholder(MAIN_PROP_NAMES, "Prop")
          /\ callArg \in DOMAIN ELEMENTAL_DMG_BONUS =>
                callRet = ELEMENTAL_DMG_BONUS[callArg]
    /\ callFn = "get_fight_prop_name" =>
          IF callArg \in DOMAIN FIGHT_PROP_NAMES
          THEN callRet = FIGHT_PROP_NAMES[callArg]
          ELSE callRet = "Prop " \o callArg
    /\ callFn \in {"get_character_name", "get_artifact_set_name", "get_weapon_name",
                   "get_main_prop_name", "get_fight_prop_name"} =>
          callRet \in STRING

\* The id 99999999, which no table holds, has been looked up as a character.
C8_Witness ==
    /\ callFn = "get_character_name"
    /\ callArg = 99999999
    /\ callRet = "Character 99999999"

\* C9: get_stat_name takes the symbolic path exactly for the keys that start
\* with FIGHT_PROP_, and the numeric-key table (with its "Prop <key>"
\* fallback) for every other key; the symbolic path never consults the table.
C9_PathByKeyForm ==
    callFn = "get_stat_name" =>
        /\ callPath \in {"symbolic", "numeric"}
        /\ (callPath = "symbolic") <=>
              (Len(callArg) >= 11 /\ SubSeq(callArg, 1, 11) = "FIGHT_PROP_")
        /\ callPath = "numeric" =>
              callRet = IF callArg \in DOMAIN FIGHT_PROP_NAMES
                        THEN FIGHT_PROP_NAMES[callArg]
                        ELSE "Prop " \o callArg
        /\ callPath = "symbolic" =>
              /\ ~StartsWith(callRet, "Prop ")
              /\ LET rest == SubSeq(callArg, 12, Len(callArg))
                 IN  rest \in DOMAIN FIGHT_PROP_NAMES => callRet = rest
        /\ callRet \in STRING

\* FIGHT_PROP_20 has been converted: "20" is a key of the numeric table
\* ("CRIT DMG"), and the symbolic path did not look it up.
C9_Witness ==
    /\ callFn = "get_stat_name"
    /\ callArg = "FIGHT_PROP_20"
    /\ callPath = "symbolic"
    /\ callRet = "20"

Fetched == response # None

FetchSucceeds(r) ==
    /\ r.transport = "ok"
    /\ r.status = 200
    /\ r.body # None
    /\ ValidateResponse(r.body[1]).ok

\* Every avatar and every equipped item of the body is in the profile.
WholeProfile(profile, body) ==
    /\ Len(profile.avatarInfoList) = Len(body.avatarInfoList)
    /\ \A i \in 1..Len(body.avatarInfoList) :
          /\ profile.avatarInfoList[i].avatarId = body.avatarInfoList[i].avatarId
          /\ Len(profile.avatarInfoList[i].equipList) = Len(body.avatarInfoList[i].equipList)

Printed(kind) == \E i \in 1..Len(stdout) : stdout[i].line = kind

\* C10: fetch_player_data returns a profile exactly when the status is 200
\* and the whole body validates, and then the whole of it; otherwise it
\* returns None, and the gear-table run exits with status 1 without
\* searching, displaying or exporting.
C10_FetchAllOrNothing ==
    Fetched =>
        /\ (data # None) <=> FetchSucceeds(response[1])
        /\ data # None => WholeProfile(data[1], response[1].body[1])
        /\ data = None =>
              /\ pc \in {"fetched", "exited"}
              /\ pc = "exited" => exitCode = Some(1)
              /\ character = None
              /\ df = None
              /\ csv = None
              /\ ~Printed("table") /\ ~Printed("exported") /\ ~Printed("available")

\* A 200 response whose body decodes but does not validate has ended the
\* run with status 1.
C10_Witness ==
    /\ pc = "exited"
    /\ Fetched
    /\ response[1].status = 200
    /\ response[1].body # None
    /\ data = None
    /\ exitCode = Some(1)

\* The names main listed as available, in the order printed.
AvailableLines ==
    LET IsAvailable(l) == l.line = "available"
        lines == SelectSeq(stdout, IsAvailable)
    IN  [i \in 1..Len(lines) |-> lines[i].name]

\* The name a character is listed under: the table's, or "Character <id>".
ListedName(avatarId) ==
    IF avatarId \in DOMAIN CHARACTER_NAMES
    THEN CHARACTER_NAMES[avatarId]
    ELSE "Character " \o IntStr(avatarId)

\* C11: the table is displayed and the CSV written only after the fetch
\* succeeded and the character was found, the display before the export;
\* when the character is not found, main lists the translated name of every
\* character in avatarInfoList order ("Character <id>" for an id with no
\* table entry) and exits with a non-zero status, nothing shown or exported.
C11_DisplayOnlyAfterFound ==
    /\ (Printed("table") \/ csv # None \/ df # None) =>
          /\ data # None
          /\ character # None
          /\ ~Printed("not-found")
    /\ csv # None => Printed("table")
    /\ Printed("available") => Printed("not-found")
    /\ Printed("not-found") =>
          /\ pc = "exited"
          /\ data # None
          /\ character = None
          /\ exitCode # None /\ exitCode # Some(0)
          /\ AvailableLines =
                [i \in 1..Len(data[1].avatarInfoList) |->
                    ListedName(data[1].avatarInfoList[i].avatarId)]
          /\ ~Printed("table") /\ ~Printed("exported")
          /\ df = None
          /\ csv = None
    /\ (pc = "exited" /\ data # None /\ character = None) => Printed("not-found")

\* "Zhongli" was not found in a profile that lists Furina and then the
\* character with id 99999999: both names were listed, in that order.
C11_Witness ==
    /\ pc = "exited"
    /\ argv = <<"character_gear_table.py", "Zhongli">>
    /\ AvailableLines = <<"Furina", "Character 99999999">>
    /\ exitCode = Some(1)

StatModels == {"ReliquarySubstat", "ReliquaryMainstat", "WeaponStat"}

ReliquaryEquips(equipList) ==
    LET IsReliquary(equip) == equip.reliquary # None
    IN  SelectSeq(equipList, IsReliquary)

\* A profile of one character, avatarId 10000089, whose one reliquary item
\* is an EQUIP_DRESS with a float 62.3 main stat named "CRIT DMG" and no
\* substats.
CircletProfile(d) ==
    /\ Len(d.avatarInfoList) = 1
    /\ d.avatarInfoList[1].avatarId = 10000089
    /\ LET items == ReliquaryEquips(d.avatarInfoList[1].equipList)
       IN  /\ Len(items) = 1
           /\ items[1].flat.type = "ReliquaryFlat"
           /\ items[1].flat.equipType = "EQUIP_DRESS"
           /\ items[1].flat.reliquaryMainstat # None
           /\ items[1].flat.reliquaryMainstat[1].statValue = RawStat("float", 623)
           /\ get_stat_name(items[1].flat.reliquaryMainstat[1].mainPropId) = "CRIT DMG"
           /\ items[1].flat.reliquarySubstats \in {None, Some(<<>>)}

CircletRow ==
    ("Artifact" :> "Circlet") @@ ("Main Stat" :> Some("CRIT DMG 62.3%")) @@
    ("Substat 1" :> None) @@ ("Substat 2" :> None) @@
    ("Substat 3" :> None) @@ ("Substat 4" :> None)

\* C13: for a profile of one character with avatarId 10000089 carrying one
\* reliquary item (EQUIP_DRESS, main stat float 62.3 translating to
\* "CRIT DMG", no substats), extract_artifact_details gives the single row
\* {Artifact: "Circlet", Main Stat: "CRIT DMG 62.3%", Substat 1..4 blank} and
\* find_character(profile, "furina") gives that character; a run of main for
\* "furina" holds that character and that table.
C13_FurinaCircletEndToEnd ==
    (data # None /\ CircletProfile(data[1])) =>
        /\ extract_artifact_details(data[1].avatarInfoList[1]) = <<CircletRow>>
        /\ find_character(data[1], "furina") = Some(data[1].avatarInfoList[1])
        /\ (Len(argv) >= 2 /\ argv[2] = "furina") =>
              /\ pc \in {"searched", "table", "displayed", "exited"} =>
                    character = Some(data[1].avatarInfoList[1])
              /\ pc \in {"table", "displayed", "exited"} =>
                    df = Some(<<CircletRow>>)

\* The run for "furina" on such a profile, the circlet its only item, ended
\* with the one-row table exported.
C13_Witness ==
    /\ pc = "exited"
    /\ data # None
    /\ CircletProfile(data[1])
    /\ Len(data[1].avatarInfoList[1].equipList) = 1
    /\ argv = <<"character_gear_table.py", "furina">>
    /\ character = Some(data[1].avatarInfoList[1])
    /\ df = Some(<<CircletRow>>)
    /\ csv # None

\* sub in s
Contains(s, sub) ==
    \E i \in 1..(Len(s) - Len(sub) + 1) : SubSeq(s, i, i + Len(sub) - 1) = sub

\* The label the replacements of get_stat_name start from: the key without
\* its tag, underscores as spaces, title-cased.
TitleCasedRemainder(stat_id) ==
    StrTitle(StrReplace(StrReplace(stat_id, "FIGHT_PROP_", ""), "_", " "))

\* C14: on get_stat_name's symbolic path every replacement of the list takes
\* effect on the title-cased label: a label containing "Crit Hurt" comes
\* back with "CRIT DMG" in its place, as "Charge Efficiency" comes back
\* "Energy Recharge" and "Fire Add Hurt" comes back "Pyro DMG Bonus".
C14_EveryReplacementApplies ==
    (callFn = "get_stat_name" /\ callPath = "symbolic") =>
        LET label == TitleCasedRemainder(callArg)
        IN  /\ Contains(label, "Crit Hurt") =>
                  /\ Contains(callRet, "CRIT DMG")
                  /\ ~Contains(callRet, "Hurt")
            /\ Contains(label, "Charge Efficiency") =>
                  /\ Contains(callRet, "Energy Recharge")
                  /\ ~Contains(callRet, "Charge Efficiency")
            /\ Contains(label, "Fire Add Hurt") =>
                  /\ Contains(callRet, "Pyro DMG Bonus")
                  /\ ~Contains(callRet, "Fire Add Hurt")

=============================================================================
